---- MODULE Spec2Model ----
(***************************************************************************)
(* Plugin manager of claude_code_plugins_sdk: marketplace registry,        *)
(* marketplace cache, plugin cache, per-scope enabledPlugins ledgers and   *)
(* blocklist, with the operations of manager/_manager.py.                  *)
(*                                                                         *)
(* Strings are modelled as sequences of one-character strings so that key  *)
(* construction and parsing are computed as the code computes them.        *)
(***************************************************************************)
EXTENDS Integers, Sequences, FiniteSets, TLC

VARIABLES
    registry,     \* known_marketplaces: name -> entry or NoEntry
    mktCache,     \* marketplace cache: name -> "none" | "partial" | tree id
    pluginCache,  \* set of <<marketplace, plugin>> with a plugin cache dir
    ledger,       \* configured scope -> enabledPlugins map (key -> BOOLEAN)
    blocklist,    \* set of blocked keys (blocklist.json plugins[*].plugin)
    now,          \* wall clock read by datetime.now
    lastOp,       \* last call: operation, arguments, outcome, fetch calls
    track,        \* history: ledger snapshot taken at the last install
    again,        \* history: the last call repeated the call before it
    pending,      \* the call in progress, between two of its steps, or Idle
    files,        \* settings.json of each configured scope, as stored on disk
    scratch       \* the temporary directories that exist

progVars == <<registry, mktCache, pluginCache, ledger, blocklist, now>>
vars == <<registry, mktCache, pluginCache, ledger, blocklist, now, lastOp, track, again,
          pending, files, scratch>>

----------------------------------------------------------------------------
(* Bounds and universes *)

MaxNow == 1

NoStr == <<>>
Plugins == {<<"a">>, <<"b">>}
Marketplaces == {<<"m">>, <<"n">>}
Scopes == {"user", "project", "local"}
ConfiguredScopes == {"user", "project"}
AddSources == {<<"o", "/", "r">>, <<"o", "/", "s">>}
BlockableKeys == {<<"b", "@", "m">>}
PluginTargets == {<<"m">>}

----------------------------------------------------------------------------
(* Remote content: what a fetch of a source can yield *)

NoManifestTree == "T0"

TreeName(t) ==
    IF t = "T3" THEN <<"n">> ELSE <<"m">>

Empty == [x \in {} |-> "relative"]

TreePlugins(t) ==
    CASE t = "T1" -> [x \in {<<"a">>, <<"b">>} |-> IF x = <<"a">> THEN "relative" ELSE "github"]
      [] t = "T2" -> [x \in {<<"a">>} |-> "npm"]
      [] t = "T4" -> [x \in {<<"a">>} |-> "pip"]
      [] OTHER -> Empty

\* entry.version of each listed plugin; "None": the entry carries no version
TreeVersions(t) ==
    CASE t = "T1" -> [x \in {<<"a">>, <<"b">>} |-> "1"]
      [] t = "T2" -> [x \in {<<"a">>} |-> "1"]
      [] t = "T4" -> [x \in {<<"a">>} |-> "None"]
      [] OTHER -> Empty

\* The directories of a tree in which check_update looks for plugin p:
\* plugins/p, external_plugins/p and the root.  Each is "nodir" when the
\* directory does not exist, "nofile" when it holds no
\* .claude-plugin/plugin.json with a version, else that version.
TreeDisk(t, p) ==
    CASE t = "T1" /\ p = <<"a">> ->
             [plugins |-> "2", external |-> "nodir", root |-> "nofile"]
      [] t = "T2" /\ p = <<"a">> ->
             [plugins |-> "1", external |-> "nodir", root |-> "nofile"]
      [] t = "T4" /\ p = <<"a">> ->
             [plugins |-> "nodir", external |-> "2", root |-> "nofile"]
      [] OTHER -> [plugins |-> "nodir", external |-> "nodir", root |-> "nofile"]

GitUrl == <<"u", ".", "g", "i", "t">>

RepoTrees(repo) ==
    IF repo = <<"o", "/", "r">> THEN {"T1", "T2", "T4", NoManifestTree}
    ELSE IF repo = <<"o", "/", "s">> THEN {"T3"}
    ELSE IF repo = GitUrl THEN {"T3"}
    ELSE {}

----------------------------------------------------------------------------
(* Pure helpers *)

_plugin_key(plugin_name, marketplace) ==
    plugin_name \o <<"@">> \o marketplace

NoEntry == [source |-> "none"]

\* no call is in progress
Idle == [op |-> "idle"]

\* a settings path at which no file exists
MissingFile == [kind |-> "missing"]

\* no temporary directory exists
NoScratch == {}

Registered == {m \in Marketplaces : registry[m] # NoEntry}

get_cache_path(name) == <<"marketplaces", name>>

\* load_marketplace on the cached copy: the tree's manifest or a LoadError
load_marketplace(c) ==
    IF c \in {"none", "partial", NoManifestTree} THEN "LoadError" ELSE c

\* BlocklistPlugin.reason of the entry for a key: the entries of the model
\* all carry one
BlockReason(key) == "malware"

\* variant: the blocklist entry is compared with the plugin name alone
is_blocked_by_name(plugin_name, marketplace) ==
    plugin_name \in blocklist

is_blocked(plugin_name, marketplace) ==
    _plugin_key(plugin_name, marketplace) \in blocklist

_settings_for(scope) ==
    IF scope \in ConfiguredScopes THEN "adapter" ELSE "ValueError"

\* variant: the map written holds the one key
dict_set_alone(plugins, key, value) ==
    [k \in {key} |-> value]

\* plugins[key] = value
dict_set(plugins, key, value) ==
    [k \in DOMAIN plugins \cup {key} |-> IF k = key THEN value ELSE plugins[k]]

\* variant: the deletion is lost
dict_del_lost(plugins, key) ==
    plugins

\* del plugins[key]
dict_del(plugins, key) ==
    [k \in DOMAIN plugins \ {key} |-> plugins[k]]

\* name, ref: the optional arguments of add_marketplace; fetched: the source
\* handed to FetchAdapter.fetch; value: what a query returned; reason: the
\* reason attribute of a PluginBlockedError
Call(op, p, m, s, src, res, n) ==
    [op |-> op, plugin |-> p, marketplace |-> m, scope |-> s, source |-> src,
     result |-> res, fetches |-> n, name |-> NoStr, ref |-> "None",
     fetched |-> NoEntry, value |-> <<>>, reason |-> "None"]

----------------------------------------------------------------------------
(* PluginManager.install *)

\* variant: the key-already-present check is missing
InstallResult_overwrite(p, m, s) ==
    LET manifest == load_marketplace(mktCache[m])
    IN  IF is_blocked(p, m) THEN "PluginBlocked"
        ELSE IF m \notin Registered THEN "MarketplaceNotFound"
        ELSE IF manifest = "LoadError" THEN "LoadError"
        ELSE IF p \notin DOMAIN TreePlugins(manifest) THEN "PluginNotFound"
        ELSE IF _settings_for(s) = "ValueError" THEN "ValueError"
        ELSE "ok"

\* variant: the plugin is not looked up in the manifest
InstallResult_unlisted(p, m, s) ==
    LET key == _plugin_key(p, m)
        manifest == load_marketplace(mktCache[m])
    IN  IF is_blocked(p, m) THEN "PluginBlocked"
        ELSE IF m \notin Registered THEN "MarketplaceNotFound"
        ELSE IF manifest = "LoadError" THEN "LoadError"
        ELSE IF _settings_for(s) = "ValueError" THEN "ValueError"
        ELSE IF key \in DOMAIN ledger[s] THEN "AlreadyInstalled"
        ELSE "ok"

InstallResult(p, m, s) ==
    LET key == _plugin_key(p, m)
        manifest == load_marketplace(mktCache[m])
    IN  IF is_blocked(p, m) THEN "PluginBlocked"
        ELSE IF m \notin Registered THEN "MarketplaceNotFound"
        ELSE IF manifest = "LoadError" THEN "LoadError"
        ELSE IF p \notin DOMAIN TreePlugins(manifest) THEN "PluginNotFound"
        ELSE IF _settings_for(s) = "ValueError" THEN "ValueError"
        ELSE IF key \in DOMAIN ledger[s] THEN "AlreadyInstalled"
        ELSE "ok"

Install(p, m, s) ==
    LET key == _plugin_key(p, m)
        res == InstallResult(p, m, s)
    IN  /\ lastOp' = Call("install", p, m, s, NoStr, res, 0)
        /\ IF res = "ok"
           THEN ledger' = [ledger EXCEPT ![s] = dict_set(ledger[s], key, TRUE)]
           ELSE ledger' = ledger
        /\ UNCHANGED <<registry, mktCache, pluginCache, blocklist, now>>

----------------------------------------------------------------------------
(* PluginManager.uninstall / enable / disable *)

\* variant: the key is looked up in every configured scope
NotInstalledCheck_anyScope(p, m, s) ==
    IF _settings_for(s) = "ValueError" THEN "ValueError"
    ELSE IF \A sc \in ConfiguredScopes : _plugin_key(p, m) \notin DOMAIN ledger[sc]
         THEN "NotInstalled"
    ELSE "ok"

\* variant: a blocked key is refused
NotInstalledCheck_blocked(p, m, s) ==
    IF _settings_for(s) = "ValueError" THEN "ValueError"
    ELSE IF _plugin_key(p, m) \notin DOMAIN ledger[s] THEN "NotInstalled"
    ELSE IF is_blocked(p, m) THEN "PluginBlocked"
    ELSE "ok"

NotInstalledCheck(p, m, s) ==
    IF _settings_for(s) = "ValueError" THEN "ValueError"
    ELSE IF _plugin_key(p, m) \notin DOMAIN ledger[s] THEN "NotInstalled"
    ELSE "ok"

Uninstall(p, m, s) ==
    LET key == _plugin_key(p, m)
        res == NotInstalledCheck(p, m, s)
    IN  /\ lastOp' = Call("uninstall", p, m, s, NoStr, res, 0)
        /\ IF res = "ok"
           THEN ledger' = [ledger EXCEPT ![s] = dict_del(ledger[s], key)]
           ELSE ledger' = ledger
        /\ UNCHANGED <<registry, mktCache, pluginCache, blocklist, now>>

\* variant: enable flips the stored flag
Enable_toggle(p, m, s) ==
    LET key == _plugin_key(p, m)
        res == NotInstalledCheck(p, m, s)
    IN  /\ lastOp' = Call("enable", p, m, s, NoStr, res, 0)
        /\ IF res = "ok"
           THEN ledger' = [ledger EXCEPT ![s] = dict_set(ledger[s], key, ~ledger[s][key])]
           ELSE ledger' = ledger
        /\ UNCHANGED <<registry, mktCache, pluginCache, blocklist, now>>

Enable(p, m, s) ==
    LET key == _plugin_key(p, m)
        res == NotInstalledCheck(p, m, s)
    IN  /\ lastOp' = Call("enable", p, m, s, NoStr, res, 0)
        /\ IF res = "ok"
           THEN ledger' = [ledger EXCEPT ![s] = dict_set(ledger[s], key, TRUE)]
           ELSE ledger' = ledger
        /\ UNCHANGED <<registry, mktCache, pluginCache, blocklist, now>>

\* variant: disable drops the key
Disable_remove(p, m, s) ==
    LET key == _plugin_key(p, m)
        res == NotInstalledCheck(p, m, s)
    IN  /\ lastOp' = Call("disable", p, m, s, NoStr, res, 0)
        /\ IF res = "ok"
           THEN ledger' = [ledger EXCEPT ![s] = dict_del(ledger[s], key)]
           ELSE ledger' = ledger
        /\ UNCHANGED <<registry, mktCache, pluginCache, blocklist, now>>

Disable(p, m, s) ==
    LET key == _plugin_key(p, m)
        res == NotInstalledCheck(p, m, s)
    IN  /\ lastOp' = Call("disable", p, m, s, NoStr, res, 0)
        /\ IF res = "ok"
           THEN ledger' = [ledger EXCEPT ![s] = dict_set(ledger[s], key, FALSE)]
           ELSE ledger' = ledger
        /\ UNCHANGED <<registry, mktCache, pluginCache, blocklist, now>>

----------------------------------------------------------------------------
(* LocalFilesystemSettingsAdapter: enabledPlugins inside a settings.json   *)
(* that may carry other top-level keys.  A file is missing, not JSON       *)
(* ("corrupt"), JSON that is not an object ("list"), or an object          *)
(* ("dict") with its other keys and its enabledPlugins value, whose        *)
(* entries are JSON values.                                                *)

NoPlugins == [state |-> "absent", map |-> Empty]

DictFile(other, plugins) == [kind |-> "dict", other |-> other, plugins |-> plugins]

\* _load_json(path, {}) followed by the isinstance(raw, dict) test
load_dict(file) ==
    IF file.kind = "dict" THEN file ELSE DictFile("none", NoPlugins)

\* bool(v) of a JSON value
to_bool(v) == v \in {"true", "1"}

\* json.dumps of a bool
from_bool(b) == IF b THEN "true" ELSE "false"

get_enabled_plugins(file) ==
    LET raw == load_dict(file)
    IN  IF raw.plugins.state # "dict" THEN Empty
        ELSE [k \in DOMAIN raw.plugins.map |-> to_bool(raw.plugins.map[k])]

\* variant: the file is written anew with the one key
set_enabled_plugins_overwrite(file, data) ==
    DictFile("none", [state |-> "dict", map |-> [k \in DOMAIN data |-> from_bool(data[k])]])

set_enabled_plugins(file, data) ==
    LET raw == load_dict(file)
    IN  [raw EXCEPT !.plugins =
            [state |-> "dict", map |-> [k \in DOMAIN data |-> from_bool(data[k])]]]

\* a successful call ends with set_enabled_plugins(plugins) on its scope
write_back(s) ==
    files' = IF lastOp'.result = "ok"
             THEN [files EXCEPT ![s] = set_enabled_plugins(files[s], ledger'[s])]
             ELSE files

FsInstall(p, m, s) == Install(p, m, s) /\ write_back(s)

FsUninstall(p, m, s) == Uninstall(p, m, s) /\ write_back(s)

FsEnable(p, m, s) == Enable(p, m, s) /\ write_back(s)

FsDisable(p, m, s) == Disable(p, m, s) /\ write_back(s)

----------------------------------------------------------------------------
(* Source detection and conversion *)

NameChars == {"a", "b", "g", "h", "i", "m", "n", "o", "p", "r", "s", "t", ".", "-", "_"}

EndsWith(s, suffix) ==
    /\ Len(s) >= Len(suffix)
    /\ SubSeq(s, Len(s) - Len(suffix) + 1, Len(s)) = suffix

\* ^[\w.-]+/[\w.-]+$
_GITHUB_SHORTHAND(s) ==
    \E i \in 1..Len(s) :
        /\ s[i] = "/"
        /\ i > 1
        /\ i < Len(s)
        /\ \A j \in (1..Len(s)) \ {i} : s[j] \in NameChars

_detect(s) ==
    IF EndsWith(s, <<".", "g", "i", "t">>)
    THEN [source |-> "url", loc |-> s, ref |-> "None"]
    ELSE IF _GITHUB_SHORTHAND(s)
    THEN [source |-> "github", loc |-> s, ref |-> "None"]
    ELSE [source |-> "http", loc |-> s, ref |-> "None"]

\* variant: every git-hosted source is stored as a plain git source
_source_to_state_source_git(source) ==
    CASE source.source \in {"github", "url"} ->
             [source |-> "git", loc |-> source.loc, ref |-> source.ref]
      [] source.source = "http" -> [source |-> "http", loc |-> source.loc, ref |-> "None"]
      [] OTHER -> source

_source_to_state_source(source) ==
    CASE source.source = "github" -> [source |-> "github", loc |-> source.loc, ref |-> source.ref]
      [] source.source = "url" -> [source |-> "git", loc |-> source.loc, ref |-> source.ref]
      [] source.source = "http" -> [source |-> "http", loc |-> source.loc, ref |-> "None"]
      [] source.source \in {"git", "directory", "hostPattern"} -> source
      [] OTHER -> [source |-> "ValueError"]

\* outcomes of FetchAdapter.fetch for a source: a fetched tree or FetchError
FetchOutcomes(source) ==
    {"FetchError"} \cup RepoTrees(source.loc)

KnownMarketplaceEntry(source, name, t) ==
    [source |-> source, installLocation |-> get_cache_path(name), lastUpdated |-> t]

----------------------------------------------------------------------------
(* PluginManager.add_marketplace / remove_marketplace / refresh_marketplace *)

\* ref is applied to a source given as a string when it is a GitHub
\* shorthand or a git URL
with_ref(fetch_source, ref) ==
    IF ref # "None" /\ fetch_source.source \in {"github", "url"}
    THEN [fetch_source EXCEPT !.ref = ref]
    ELSE fetch_source

\* name or manifest.name
resolved_name(name, out) ==
    IF name # NoStr THEN name ELSE TreeName(out)

AddMarketplaceAs(src, name, ref, out) ==
    LET fetch_source == with_ref(_detect(src), ref)
        manifest == load_marketplace(out)
        rname == resolved_name(name, out)
        res == IF out = "FetchError" THEN "FetchError"
               ELSE IF manifest = "LoadError" THEN "LoadError"
               ELSE "ok"
    IN  /\ out \in FetchOutcomes(fetch_source)
        /\ lastOp' = [Call("add_marketplace", NoStr,
                           IF res = "ok" THEN rname ELSE NoStr,
                           "-", src, res, 1)
                          EXCEPT !.name = name, !.ref = ref, !.fetched = fetch_source]
        /\ IF res = "ok"
           THEN /\ mktCache' = [mktCache EXCEPT ![rname] = out]
                /\ registry' = [registry EXCEPT ![rname] =
                       KnownMarketplaceEntry(_source_to_state_source(fetch_source),
                                             rname, now)]
           ELSE UNCHANGED <<mktCache, registry>>
        /\ UNCHANGED <<pluginCache, ledger, blocklist, now>>

AddMarketplace(src, out) ==
    AddMarketplaceAs(src, NoStr, "None", out)

\* add_marketplace with a source given as an object: the object goes to the
\* fetcher as it is, and is converted to a registry source after the fetch
\* scope has ended, with the cache already stored
AddMarketplaceObject(source, out) ==
    LET manifest == load_marketplace(out)
        rname == resolved_name(NoStr, out)
        state_source == _source_to_state_source(source)
        res == IF out = "FetchError" THEN "FetchError"
               ELSE IF manifest = "LoadError" THEN "LoadError"
               ELSE IF state_source.source = "ValueError" THEN "ValueError"
               ELSE "ok"
    IN  /\ out \in FetchOutcomes(source)
        /\ lastOp' = [Call("add_marketplace", NoStr,
                           IF res \in {"ok", "ValueError"} THEN rname ELSE NoStr,
                           "-", source.loc, res, 1)
                          EXCEPT !.fetched = source]
        /\ mktCache' = IF res \in {"ok", "ValueError"}
                       THEN [mktCache EXCEPT ![rname] = out]
                       ELSE mktCache
        /\ registry' = IF res = "ok"
                       THEN [registry EXCEPT ![rname] =
                                KnownMarketplaceEntry(state_source, rname, now)]
                       ELSE registry
        /\ UNCHANGED <<pluginCache, ledger, blocklist, now>>

\* the process dies between store_cache and set_marketplaces
AddMarketplaceCrash(src, name, ref, out) ==
    LET fetch_source == with_ref(_detect(src), ref)
        rname == resolved_name(name, out)
    IN  /\ out \in FetchOutcomes(fetch_source)
        /\ out # "FetchError"
        /\ load_marketplace(out) # "LoadError"
        /\ lastOp' = [Call("add_marketplace", NoStr, NoStr, "-", src, "crash", 1)
                          EXCEPT !.name = name, !.ref = ref, !.fetched = fetch_source]
        /\ mktCache' = [mktCache EXCEPT ![rname] = out]
        /\ UNCHANGED <<registry, pluginCache, ledger, blocklist, now>>

RemoveMarketplace(name) ==
    LET res == IF name \notin Registered THEN "MarketplaceNotFound" ELSE "ok"
    IN  /\ lastOp' = Call("remove_marketplace", NoStr, name, "-", NoStr, res, 0)
        /\ IF res = "ok"
           THEN /\ mktCache' = [mktCache EXCEPT ![name] = "none"]
                /\ registry' = [registry EXCEPT ![name] = NoEntry]
           ELSE UNCHANGED <<mktCache, registry>>
        /\ UNCHANGED <<pluginCache, ledger, blocklist, now>>

\* remove_marketplace one store write at a time: delete_cache, then
\* set_marketplaces of the map read at the start without the name.
\* variant: the registry is written first
remove_first_write_registry(name) ==
    /\ registry' = [registry EXCEPT ![name] = NoEntry]
    /\ UNCHANGED mktCache

remove_first_write(name) ==
    /\ mktCache' = [mktCache EXCEPT ![name] = "none"]
    /\ UNCHANGED registry

remove_second_write(name, all_marketplaces) ==
    /\ registry' = [all_marketplaces EXCEPT ![name] = NoEntry]
    /\ UNCHANGED mktCache

RemoveBegin(name) ==
    /\ pending = Idle
    /\ IF name \notin Registered
       THEN /\ lastOp' = Call("remove_marketplace", NoStr, name, "-", NoStr,
                              "MarketplaceNotFound", 0)
            /\ UNCHANGED <<registry, mktCache, pending>>
       ELSE /\ lastOp' = Call("remove_marketplace", NoStr, name, "-", NoStr,
                              "running", 0)
            /\ remove_first_write(name)
            /\ pending' = [op |-> "remove_marketplace", name |-> name,
                           all_marketplaces |-> registry]
    /\ UNCHANGED <<pluginCache, ledger, blocklist, now>>

RemoveEnd ==
    /\ pending # Idle
    /\ pending.op = "remove_marketplace"
    /\ lastOp' = Call("remove_marketplace", NoStr, pending.name, "-", NoStr, "ok", 0)
    /\ remove_second_write(pending.name, pending.all_marketplaces)
    /\ pending' = Idle
    /\ UNCHANGED <<pluginCache, ledger, blocklist, now>>

\* the process dies with a call in progress
Die ==
    /\ pending # Idle
    /\ lastOp' = Call(pending.op, NoStr, pending.name, "-", NoStr, "crash", 0)
    /\ pending' = Idle
    /\ UNCHANGED progVars

\* the process dies between delete_cache and set_marketplaces
RemoveMarketplaceCrash(name) ==
    /\ name \in Registered
    /\ lastOp' = Call("remove_marketplace", NoStr, name, "-", NoStr, "crash", 0)
    /\ mktCache' = [mktCache EXCEPT ![name] = "none"]
    /\ UNCHANGED <<registry, pluginCache, ledger, blocklist, now>>

\* variant: the entry is written back as it was read
refreshed_entry_stale(entry, name, t) ==
    entry

\* the entry refresh writes: the stored source, the cache path, the time of
\* the call
refreshed_entry(entry, name, t) ==
    KnownMarketplaceEntry(entry.source, name, t)

\* variant: the fetched tree is copied into the cache before its manifest is
\* loaded
RefreshMarketplace_store_first(name, out) ==
    LET entry == registry[name]
        manifest == load_marketplace(out)
        res == IF name \notin Registered THEN "MarketplaceNotFound"
               ELSE IF out = "FetchError" THEN "FetchError"
               ELSE IF manifest = "LoadError" THEN "LoadError"
               ELSE "ok"
    IN  /\ IF name \in Registered THEN out \in FetchOutcomes(entry.source)
                                  ELSE out = "FetchError"
        /\ lastOp' = [Call("refresh_marketplace", NoStr, name, "-", NoStr, res,
                           IF name \in Registered THEN 1 ELSE 0)
                          EXCEPT !.fetched = entry.source]
        /\ mktCache' = IF res \in {"ok", "LoadError"}
                       THEN [mktCache EXCEPT ![name] = out]
                       ELSE mktCache
        /\ registry' = IF res = "ok"
                       THEN [registry EXCEPT ![name] = refreshed_entry(entry, name, now)]
                       ELSE registry
        /\ UNCHANGED <<pluginCache, ledger, blocklist, now>>

RefreshMarketplace(name, out) ==
    LET entry == registry[name]
        manifest == load_marketplace(out)
        res == IF name \notin Registered THEN "MarketplaceNotFound"
               ELSE IF out = "FetchError" THEN "FetchError"
               ELSE IF manifest = "LoadError" THEN "LoadError"
               ELSE "ok"
    IN  /\ IF name \in Registered THEN out \in FetchOutcomes(entry.source)
                                  ELSE out = "FetchError"
        /\ lastOp' = [Call("refresh_marketplace", NoStr, name, "-", NoStr, res,
                           IF name \in Registered THEN 1 ELSE 0)
                          EXCEPT !.fetched = entry.source]
        /\ IF res = "ok"
           THEN /\ mktCache' = [mktCache EXCEPT ![name] = out]
                /\ registry' = [registry EXCEPT ![name] =
                       refreshed_entry(entry, name, now)]
           ELSE UNCHANGED <<mktCache, registry>>
        /\ UNCHANGED <<pluginCache, ledger, blocklist, now>>

\* the process dies inside store_cache, after rmtree and before the
\* manifest file has been copied
RefreshMarketplaceCrash(name, out) ==
    /\ name \in Registered
    /\ out \in FetchOutcomes(registry[name].source)
    /\ load_marketplace(out) # "LoadError"
    /\ out # "FetchError"
    /\ lastOp' = [Call("refresh_marketplace", NoStr, name, "-", NoStr, "crash", 1)
                      EXCEPT !.fetched = registry[name].source]
    /\ mktCache' = [mktCache EXCEPT ![name] = "partial"]
    /\ UNCHANGED <<registry, pluginCache, ledger, blocklist, now>>

\* variant: the cache directory is looked at before the registry
get_marketplace_manifest_cache_first(name) ==
    IF mktCache[name] = "none" THEN "MarketplaceNotFound"
    ELSE IF name \notin Registered THEN "MarketplaceNotFound"
    ELSE load_marketplace(mktCache[name])

\* the manifest of the cached copy, or the error raised
get_marketplace_manifest(name) ==
    IF name \notin Registered THEN "MarketplaceNotFound"
    ELSE load_marketplace(mktCache[name])

GetMarketplaceManifest(name) ==
    LET manifest == get_marketplace_manifest(name)
        res == IF manifest \in {"MarketplaceNotFound", "LoadError"} THEN manifest
               ELSE "ok"
    IN  /\ lastOp' = [Call("get_marketplace_manifest", NoStr, name, "-", NoStr, res, 0)
                          EXCEPT !.value = IF res = "ok" THEN <<manifest>> ELSE <<>>]
        /\ UNCHANGED <<registry, mktCache, pluginCache, ledger, blocklist, now>>

----------------------------------------------------------------------------
(* Queries: list_installed, is_installed, is_enabled, check_update,        *)
(* check_all_updates.  A dict is iterated in a fixed order of its keys:    *)
(* the insertion order is not part of the state.                           *)

\* the order of the manager's settings dict
ScopeOrder == <<"user", "project">>

KeyOrder ==
    <<_plugin_key(<<"a">>, <<"m">>), _plugin_key(<<"a">>, <<"n">>),
      _plugin_key(<<"b">>, <<"m">>), _plugin_key(<<"b">>, <<"n">>)>>

\* "@" in key
HasAt(key) ==
    \E i \in 1..Len(key) : key[i] = "@"

\* key.rsplit("@", 1)
rsplit(key) ==
    LET i == CHOOSE i \in 1..Len(key) :
                 key[i] = "@" /\ \A j \in (i + 1)..Len(key) : key[j] # "@"
    IN  <<SubSeq(key, 1, i - 1), SubSeq(key, i + 1, Len(key))>>

RECURSIVE scope_records(_, _, _)
scope_records(plugins, keys, sc) ==
    IF keys = <<>> THEN <<>>
    ELSE LET key == Head(keys)
             rest == scope_records(plugins, Tail(keys), sc)
         IN  IF key \notin DOMAIN plugins \/ ~HasAt(key) THEN rest
             ELSE <<[name |-> rsplit(key)[1], marketplace |-> rsplit(key)[2],
                     enabled |-> plugins[key], scope |-> sc]>> \o rest

RECURSIVE list_installed_over(_)
list_installed_over(scopes_to_use) ==
    IF scopes_to_use = <<>> THEN <<>>
    ELSE LET sc == Head(scopes_to_use)
         IN  (IF sc \notin ConfiguredScopes THEN <<>>
              ELSE scope_records(ledger[sc], KeyOrder, sc))
             \o list_installed_over(Tail(scopes_to_use))

\* variant: a scope without adapter is refused
list_installed_strict(scope) ==
    IF scope # "all" /\ scope \notin ConfiguredScopes THEN <<"ValueError">>
    ELSE list_installed_over(IF scope = "all" THEN ScopeOrder ELSE <<scope>>)

list_installed(scope) ==
    list_installed_over(IF scope = "all" THEN ScopeOrder ELSE <<scope>>)

ListInstalled(scope) ==
    /\ lastOp' = [Call("list_installed", NoStr, NoStr, scope, NoStr, "ok", 0)
                      EXCEPT !.value = list_installed(scope)]
    /\ UNCHANGED progVars

is_installed(p, m) ==
    \E sc \in ConfiguredScopes : _plugin_key(p, m) \in DOMAIN ledger[sc]

RECURSIVE is_enabled_from(_, _)
is_enabled_from(key, scopes) ==
    IF scopes = <<>> THEN FALSE
    ELSE IF key \in DOMAIN ledger[Head(scopes)] /\ ledger[Head(scopes)][key] = TRUE
         THEN TRUE
    ELSE is_enabled_from(key, Tail(scopes))

\* variant: the first scope that holds the key decides
is_enabled_first_scope(p, m) ==
    LET key == _plugin_key(p, m)
        holders == {i \in 1..Len(ScopeOrder) : key \in DOMAIN ledger[ScopeOrder[i]]}
    IN  /\ holders # {}
        /\ ledger[ScopeOrder[CHOOSE i \in holders : \A j \in holders : i <= j]][key]

is_enabled(p, m) ==
    is_enabled_from(_plugin_key(p, m), ScopeOrder)

IsInstalled(p, m) ==
    /\ lastOp' = [Call("is_installed", p, m, "-", NoStr, "ok", 0)
                      EXCEPT !.value = <<is_installed(p, m)>>]
    /\ UNCHANGED progVars

IsEnabled(p, m) ==
    /\ lastOp' = [Call("is_enabled", p, m, "-", NoStr, "ok", 0)
                      EXCEPT !.value = <<is_enabled(p, m)>>]
    /\ UNCHANGED progVars

\* the version found on disk for the first installed record of (p, m)
current_version(p, m) ==
    LET installed == list_installed("all")
    IN  IF \E i \in 1..Len(installed) :
               installed[i].name = p /\ installed[i].marketplace = m
        THEN LET d == TreeDisk(mktCache[m], p)
                 v == IF d.plugins # "nodir" THEN d.plugins
                      ELSE IF d.external # "nodir" THEN d.external
                      ELSE d.root
             IN  IF v = "nofile" THEN "None" ELSE v
        ELSE "None"

\* variant: an update is a higher latest version
version_differs_newer(latest, current) ==
    latest = "2" /\ current = "1"

\* latest != current
version_differs(latest, current) ==
    latest # current

UpdateCheckResult(err, p, m, current, latest, has_update) ==
    [error |-> err, plugin_name |-> p, marketplace |-> m,
     current_version |-> current, latest_version |-> latest,
     has_update |-> has_update]

check_update(p, m) ==
    LET manifest == get_marketplace_manifest(m)
    IN  IF manifest \in {"MarketplaceNotFound", "LoadError"}
        THEN UpdateCheckResult(manifest, p, m, "None", "None", FALSE)
        ELSE IF p \notin DOMAIN TreePlugins(manifest)
        THEN UpdateCheckResult("None", p, m, "None", "None", FALSE)
        ELSE LET latest == TreeVersions(manifest)[p]
                 current == current_version(p, m)
             IN  IF current = "None" \/ latest = "None"
                 THEN UpdateCheckResult("None", p, m, current, latest, FALSE)
                 ELSE UpdateCheckResult("None", p, m, current, latest,
                                        version_differs(latest, current))

CheckUpdate(p, m) ==
    LET r == check_update(p, m)
    IN  /\ lastOp' = [Call("check_update", p, m, "-", NoStr,
                           IF r.error = "None" THEN "ok" ELSE r.error, 0)
                          EXCEPT !.value = IF r.error = "None" THEN <<r>> ELSE <<>>]
        /\ UNCHANGED progVars

RECURSIVE check_all_from(_, _, _)
check_all_from(ips, seen, results) ==
    IF ips = <<>> THEN [error |-> "None", results |-> results]
    ELSE LET ip == Head(ips)
             pair == <<ip.name, ip.marketplace>>
         IN  IF ~ip.enabled \/ pair \in seen
             THEN check_all_from(Tail(ips), seen, results)
             ELSE LET r == check_update(ip.name, ip.marketplace)
                  IN  IF r.error # "None"
                      THEN [error |-> r.error, results |-> <<>>]
                      ELSE check_all_from(Tail(ips), seen \cup {pair},
                                          Append(results, r))

check_all_updates ==
    check_all_from(list_installed("all"), {}, <<>>)

CheckAllUpdates ==
    LET r == check_all_updates
    IN  /\ lastOp' = [Call("check_all_updates", NoStr, NoStr, "-", NoStr,
                           IF r.error = "None" THEN "ok" ELSE r.error, 0)
                          EXCEPT !.value = r.results]
        /\ UNCHANGED progVars

----------------------------------------------------------------------------
(* Environment: the blocklist file is refreshed out of band; time passes.  *)
(* Tick belongs to specifications about lastUpdated; Spec, SpecCrash and   *)
(* SpecHist run at one clock reading.                                      *)

BlocklistRefresh(B) ==
    /\ B # blocklist
    /\ blocklist' = B
    /\ lastOp' = Call("blocklist_refresh", NoStr, NoStr, "-", NoStr, "ok", 0)
    /\ UNCHANGED <<registry, mktCache, pluginCache, ledger, now>>

Tick ==
    /\ now < MaxNow
    /\ now' = now + 1
    /\ lastOp' = Call("tick", NoStr, NoStr, "-", NoStr, "ok", 0)
    /\ UNCHANGED <<registry, mktCache, pluginCache, ledger, blocklist>>

----------------------------------------------------------------------------
(* History variables *)

PluginOps == {"install", "uninstall", "enable", "disable"}

NoTrack == [phase |-> "none"]

SameCall(c, d) ==
    /\ c.op = d.op
    /\ c.plugin = d.plugin
    /\ c.marketplace = d.marketplace
    /\ c.scope = d.scope
    /\ c.source = d.source

CallKey(c) == _plugin_key(c.plugin, c.marketplace)

NextTrack ==
    LET c == lastOp'
    IN  IF c.op = "install" /\ c.result = "ok"
        THEN [phase |-> "open", key |-> CallKey(c), scope |-> c.scope,
              before |-> ledger[c.scope], toggled |-> FALSE]
        ELSE IF track.phase # "open" THEN NoTrack
        ELSE IF c.op \notin PluginOps \/ c.scope # track.scope THEN track
        ELSE IF CallKey(c) # track.key THEN NoTrack
        ELSE IF c.op \in {"enable", "disable"} THEN [track EXCEPT !.toggled = TRUE]
        ELSE IF c.op = "uninstall" /\ c.result = "ok"
        THEN [track EXCEPT !.phase = "closed"]
        ELSE track

History ==
    /\ again' = SameCall(lastOp, lastOp')
    /\ track' = NextTrack
    /\ UNCHANGED <<pending, files, scratch>>

----------------------------------------------------------------------------
(* Specification *)

NoCall == Call("init", NoStr, NoStr, "-", NoStr, "ok", 0)

Init ==
    /\ registry = [m \in Marketplaces |-> NoEntry]
    /\ mktCache = [m \in Marketplaces |-> "none"]
    /\ pluginCache = {}
    /\ ledger = [s \in ConfiguredScopes |-> Empty]
    /\ blocklist = {}
    /\ now = 0
    /\ lastOp = NoCall
    /\ track = NoTrack
    /\ again = FALSE
    /\ pending = Idle
    /\ files = [s \in ConfiguredScopes |-> MissingFile]
    /\ scratch = NoScratch

AllTrees == {"FetchError", "T0", "T1", "T2", "T3", "T4"}

Frozen == UNCHANGED <<track, again, pending, files, scratch>>

\* Completed calls of the manager and refreshes of the blocklist file.
Next ==
    \/ \E p \in Plugins, m \in PluginTargets, s \in Scopes : Install(p, m, s) /\ Frozen
    \/ \E p \in Plugins, m \in PluginTargets, s \in Scopes : Uninstall(p, m, s) /\ Frozen
    \/ \E p \in Plugins, m \in PluginTargets, s \in Scopes : Enable(p, m, s) /\ Frozen
    \/ \E p \in Plugins, m \in PluginTargets, s \in Scopes : Disable(p, m, s) /\ Frozen
    \/ \E src \in AddSources, out \in AllTrees : AddMarketplace(src, out) /\ Frozen
    \/ \E m \in Marketplaces : RemoveMarketplace(m) /\ Frozen
    \/ \E m \in Marketplaces, out \in AllTrees : RefreshMarketplace(m, out) /\ Frozen
    \/ \E B \in SUBSET BlockableKeys : BlocklistRefresh(B) /\ Frozen

Spec == Init /\ [][Next]_vars

\* The same, and the process may die inside remove_marketplace or inside
\* the cache copy of refresh_marketplace.
NextCrash ==
    \/ \E p \in Plugins, m \in PluginTargets, s \in Scopes : Install(p, m, s) /\ Frozen
    \/ \E p \in Plugins, m \in PluginTargets, s \in Scopes : Uninstall(p, m, s) /\ Frozen
    \/ \E p \in Plugins, m \in PluginTargets, s \in Scopes : Enable(p, m, s) /\ Frozen
    \/ \E p \in Plugins, m \in PluginTargets, s \in Scopes : Disable(p, m, s) /\ Frozen
    \/ \E src \in AddSources, out \in AllTrees : AddMarketplace(src, out) /\ Frozen
    \/ \E m \in Marketplaces : RemoveMarketplace(m) /\ Frozen
    \/ \E m \in Marketplaces, out \in AllTrees : RefreshMarketplace(m, out) /\ Frozen
    \/ \E B \in SUBSET BlockableKeys : BlocklistRefresh(B) /\ Frozen
    \/ \E m \in Marketplaces : RemoveMarketplaceCrash(m) /\ Frozen
    \/ \E m \in Marketplaces, out \in AllTrees : RefreshMarketplaceCrash(m, out) /\ Frozen

SpecCrash == Init /\ [][NextCrash]_vars

\* Completed calls on the marketplace m with the history variables recorded.
HistSources == {<<"o", "/", "r">>}
HistTrees == {"T1", "T2"}

NextHist ==
    \/ \E p \in Plugins, m \in PluginTargets, s \in Scopes : Install(p, m, s) /\ History
    \/ \E p \in Plugins, m \in PluginTargets, s \in Scopes : Uninstall(p, m, s) /\ History
    \/ \E p \in Plugins, m \in PluginTargets, s \in Scopes : Enable(p, m, s) /\ History
    \/ \E p \in Plugins, m \in PluginTargets, s \in Scopes : Disable(p, m, s) /\ History
    \/ \E src \in HistSources, out \in HistTrees : AddMarketplace(src, out) /\ History
    \/ \E m \in PluginTargets : RemoveMarketplace(m) /\ History
    \/ \E B \in SUBSET BlockableKeys : BlocklistRefresh(B) /\ History

SpecHist == Init /\ [][NextHist]_vars

\* The marketplace operations with every argument of add_marketplace, at a
\* moving clock, with the process able to die between two writes.
MktSources == {<<"o", "/", "r">>, GitUrl}
MktNames == {NoStr, <<"n">>}
MktRefs == {"None", "v"}
MktTrees == {"FetchError", "T0", "T1", "T3"}

NextMkt ==
    \/ \E src \in MktSources, name \in MktNames, ref \in MktRefs, t \in MktTrees :
           AddMarketplaceAs(src, name, ref, t) /\ Frozen
    \/ \E src \in MktSources, name \in MktNames, ref \in MktRefs, t \in MktTrees :
           AddMarketplaceCrash(src, name, ref, t) /\ Frozen
    \/ \E m \in Marketplaces : RemoveMarketplace(m) /\ Frozen
    \/ \E m \in Marketplaces : RemoveMarketplaceCrash(m) /\ Frozen
    \/ \E m \in Marketplaces, t \in MktTrees : RefreshMarketplace(m, t) /\ Frozen
    \/ \E m \in Marketplaces : GetMarketplaceManifest(m) /\ Frozen
    \/ Install(<<"a">>, <<"m">>, "user") /\ Frozen
    \/ Tick /\ Frozen

SpecMkt == Init /\ [][NextMkt]_vars

\* remove_marketplace taken one write at a time; every other call runs
\* between calls, from start to end.
FrozenFiles == UNCHANGED <<track, again, files, scratch>>

NextSteps ==
    \/ \E src \in AddSources, t \in AllTrees :
           pending = Idle /\ AddMarketplace(src, t) /\ Frozen
    \/ \E m \in Marketplaces, t \in AllTrees :
           pending = Idle /\ RefreshMarketplace(m, t) /\ Frozen
    \/ \E p \in Plugins, sc \in Scopes :
           pending = Idle /\ Install(p, <<"m">>, sc) /\ Frozen
    \/ \E m \in Marketplaces : RemoveBegin(m) /\ FrozenFiles
    \/ RemoveEnd /\ FrozenFiles
    \/ Die /\ FrozenFiles

SpecSteps == Init /\ [][NextSteps]_vars

\* The completed calls of Spec together with the queries.
ListScopes == Scopes \cup {"all"}

NextQuery ==
    \/ \E src \in AddSources, t \in AllTrees : AddMarketplace(src, t) /\ Frozen
    \/ \E m \in Marketplaces : RemoveMarketplace(m) /\ Frozen
    \/ \E p \in Plugins, m \in PluginTargets, sc \in Scopes : Install(p, m, sc) /\ Frozen
    \/ \E p \in Plugins, m \in PluginTargets, sc \in Scopes : Uninstall(p, m, sc) /\ Frozen
    \/ \E p \in Plugins, m \in PluginTargets, sc \in Scopes : Enable(p, m, sc) /\ Frozen
    \/ \E p \in Plugins, m \in PluginTargets, sc \in Scopes : Disable(p, m, sc) /\ Frozen
    \/ \E B \in SUBSET BlockableKeys : BlocklistRefresh(B) /\ Frozen
    \/ \E sc \in ListScopes : ListInstalled(sc) /\ Frozen
    \/ \E p \in Plugins, m \in PluginTargets : IsInstalled(p, m) /\ Frozen
    \/ \E p \in Plugins, m \in PluginTargets : IsEnabled(p, m) /\ Frozen
    \/ \E p \in Plugins, m \in PluginTargets : CheckUpdate(p, m) /\ Frozen
    \/ CheckAllUpdates /\ Frozen

SpecQuery == Init /\ [][NextQuery]_vars

\* The plugin operations over settings files: the ledger of a scope is what
\* get_enabled_plugins reads from its file.  The user file starts with any
\* content, the project file does not exist.
InitialMaps ==
    {Empty} \cup {[k \in {<<"a", "@", "m">>} |-> v] : v \in {"true", "false", "1", "null"}}

InitialFiles ==
    {MissingFile, [kind |-> "corrupt"], [kind |-> "list"]}
    \cup {DictFile(o, pl) :
             o \in {"none", "theme"},
             pl \in {NoPlugins, [state |-> "notdict", map |-> Empty]}
                    \cup {[state |-> "dict", map |-> mp] : mp \in InitialMaps}}

InitSettings ==
    /\ registry = [m \in Marketplaces |-> NoEntry]
    /\ mktCache = [m \in Marketplaces |-> "none"]
    /\ pluginCache = {}
    /\ blocklist = {}
    /\ now = 0
    /\ lastOp = NoCall
    /\ track = NoTrack
    /\ again = FALSE
    /\ pending = Idle
    /\ scratch = NoScratch
    /\ \E f \in InitialFiles :
           files = [s \in ConfiguredScopes |-> IF s = "user" THEN f ELSE MissingFile]
    /\ ledger = [s \in ConfiguredScopes |-> get_enabled_plugins(files[s])]

FrozenCalls == UNCHANGED <<track, again, pending, scratch>>

NextSettings ==
    \/ \E t \in {"T1"} : AddMarketplace(<<"o", "/", "r">>, t) /\ Frozen
    \/ \E p \in Plugins, sc \in ConfiguredScopes : FsInstall(p, <<"m">>, sc) /\ FrozenCalls
    \/ \E p \in Plugins, sc \in ConfiguredScopes : FsUninstall(p, <<"m">>, sc) /\ FrozenCalls
    \/ \E p \in Plugins, sc \in ConfiguredScopes : FsEnable(p, <<"m">>, sc) /\ FrozenCalls
    \/ \E p \in Plugins, sc \in ConfiguredScopes : FsDisable(p, <<"m">>, sc) /\ FrozenCalls

SpecSettings == InitSettings /\ [][NextSettings]_vars

----------------------------------------------------------------------------
(* Vocabulary of the properties *)

Listed(p, m) ==
    /\ load_marketplace(mktCache[m]) # "LoadError"
    /\ p \in DOMAIN TreePlugins(mktCache[m])

SourceKind(p, m) ==
    IF Listed(p, m) THEN TreePlugins(mktCache[m])[p] ELSE "unlisted"

External(p, m) == SourceKind(p, m) \in {"github", "url", "http"}

InstalledIn(key) == {s \in ConfiguredScopes : key \in DOMAIN ledger[s]}

IsCall(c, ops) ==
    /\ c.op \in ops
    /\ c.marketplace \in Marketplaces
    /\ c.plugin \in Plugins

----------------------------------------------------------------------------
(* Properties *)

\* C1: an install whose key is in the blocklist fails with PluginBlocked and
\* leaves every ledger unchanged, so install never adds a blocklisted key.
C1_BlockedNeverInstalled ==
    [][(IsCall(lastOp', {"install"}) /\ CallKey(lastOp') \in blocklist)
        => (lastOp'.result = "PluginBlocked" /\ ledger' = ledger)]_vars

\* C1 witness: a blocked install of a plugin that the cached manifest lists
\* and that no scope holds.
C1_Witness ==
    /\ IsCall(lastOp, {"install"})
    /\ lastOp.result = "PluginBlocked"
    /\ CallKey(lastOp) \in blocklist
    /\ lastOp.marketplace \in Registered
    /\ Listed(lastOp.plugin, lastOp.marketplace)
    /\ lastOp.scope \in ConfiguredScopes
    /\ InstalledIn(CallKey(lastOp)) = {}

\* C2 (as stated): an install of a key that the scope already holds fails
\* with AlreadyInstalled and leaves the ledgers unchanged.
C2_SecondInstallAlreadyInstalled ==
    [][(/\ IsCall(lastOp', {"install"})
        /\ lastOp'.scope \in ConfiguredScopes
        /\ CallKey(lastOp') \in DOMAIN ledger[lastOp'.scope])
        => (lastOp'.result = "AlreadyInstalled" /\ ledger' = ledger)]_vars

\* C2 (amended): an install of a key that the scope already holds never
\* succeeds and leaves the ledgers unchanged; its error is AlreadyInstalled
\* when the key is not blocked and the marketplace is registered with a
\* loadable manifest that lists the plugin, and otherwise the error of the
\* earlier precondition; a key leaves a ledger only by a successful uninstall
\* of that key in that scope.
C2_SecondInstallFails ==
    [][/\ (/\ IsCall(lastOp', {"install"})
           /\ lastOp'.scope \in ConfiguredScopes
           /\ CallKey(lastOp') \in DOMAIN ledger[lastOp'.scope])
          => /\ lastOp'.result \in {"PluginBlocked", "MarketplaceNotFound",
                                    "LoadError", "PluginNotFound", "AlreadyInstalled"}
             /\ ledger' = ledger
             /\ (/\ CallKey(lastOp') \notin blocklist
                 /\ lastOp'.marketplace \in Registered
                 /\ Listed(lastOp'.plugin, lastOp'.marketplace))
                => lastOp'.result = "AlreadyInstalled"
       /\ \A s \in ConfiguredScopes : \A k \in DOMAIN ledger[s] :
            k \notin DOMAIN ledger'[s]
            => /\ IsCall(lastOp', {"uninstall"})
               /\ lastOp'.result = "ok"
               /\ lastOp'.scope = s
               /\ CallKey(lastOp') = k]_vars

\* C2 witness: AlreadyInstalled on a key that is held disabled, still disabled.
C2_Witness ==
    /\ IsCall(lastOp, {"install"})
    /\ lastOp.result = "AlreadyInstalled"
    /\ lastOp.scope \in ConfiguredScopes
    /\ CallKey(lastOp) \in DOMAIN ledger[lastOp.scope]
    /\ ledger[lastOp.scope][CallKey(lastOp)] = FALSE

\* C3 (as stated): an install of a plugin that the manifest of its registered
\* marketplace does not list fails with PluginNotFound.
C3_UnlistedPluginNotFound ==
    [][(/\ IsCall(lastOp', {"install"})
        /\ lastOp'.marketplace \in Registered
        /\ ~Listed(lastOp'.plugin, lastOp'.marketplace))
        => lastOp'.result = "PluginNotFound"]_vars

\* C3 (amended): an install of a plugin that the manifest of its registered
\* marketplace does not list never succeeds and changes no ledger: it fails
\* with PluginBlocked when the key is blocked, otherwise with LoadError when
\* the cached manifest cannot be loaded, otherwise with PluginNotFound.
C3_UnlistedInstallFails ==
    [][(/\ IsCall(lastOp', {"install"})
        /\ lastOp'.marketplace \in Registered
        /\ ~Listed(lastOp'.plugin, lastOp'.marketplace))
        => /\ ledger' = ledger
           /\ lastOp'.result =
                IF CallKey(lastOp') \in blocklist THEN "PluginBlocked"
                ELSE IF load_marketplace(mktCache[lastOp'.marketplace]) = "LoadError"
                THEN "LoadError"
                ELSE "PluginNotFound"]_vars

\* C3 witness: PluginNotFound for a plugin that a scope still holds from an
\* earlier version of the manifest.
C3_Witness ==
    /\ IsCall(lastOp, {"install"})
    /\ lastOp.result = "PluginNotFound"
    /\ lastOp.marketplace \in Registered
    /\ ~Listed(lastOp.plugin, lastOp.marketplace)
    /\ InstalledIn(CallKey(lastOp)) # {}

\* C4: install followed by uninstall of the same key in the same scope, with
\* only enable/disable calls on that key in between in that scope, returns
\* the scope's ledger to its contents before the install.
C4_InstallUninstallRoundTrip ==
    track.phase = "closed"
    => /\ ledger[track.scope] = track.before
       /\ track.key \notin DOMAIN ledger[track.scope]

\* C4 witness: a completed round trip with an enable/disable in between, in a
\* scope that held another key.
C4_Witness ==
    /\ track.phase = "closed"
    /\ track.toggled
    /\ track.before # Empty
    /\ IsCall(lastOp, {"uninstall"})

\* C5: after an uninstall of an externally-sourced plugin its plugin cache
\* exists exactly when a configured scope still holds the key.
C5_CacheKeptWhileInstalled ==
    (/\ IsCall(lastOp, {"uninstall"})
     /\ lastOp.result = "ok"
     /\ External(lastOp.plugin, lastOp.marketplace))
    => (<<lastOp.marketplace, lastOp.plugin>> \in pluginCache
        <=> InstalledIn(CallKey(lastOp)) # {})

\* C6: for an externally-sourced pair the plugin cache exists iff some
\* configured scope holds the key.
C6_CacheIffInstalled ==
    \A p \in Plugins, m \in Marketplaces :
        External(p, m)
        => (<<m, p>> \in pluginCache <=> InstalledIn(_plugin_key(p, m)) # {})

\* C7: enable (disable) called twice in a row on a key the scope holds: the
\* second call succeeds and changes nothing.
C7_EnableDisableIdempotent ==
    [][(/\ IsCall(lastOp, {"enable", "disable"})
        /\ lastOp.result = "ok"
        /\ SameCall(lastOp, lastOp'))
        => (lastOp'.result = "ok" /\ UNCHANGED progVars)]_vars

\* C7 witness: a repeated successful enable or disable.
C7_Witness ==
    /\ again
    /\ IsCall(lastOp, {"enable", "disable"})
    /\ lastOp.result = "ok"

\* C8: uninstall, enable and disable on a configured scope that does not hold
\* the key fail with NotInstalled and change nothing.
C8_NotInstalledNoChange ==
    [][(/\ IsCall(lastOp', {"uninstall", "enable", "disable"})
        /\ lastOp'.scope \in ConfiguredScopes
        /\ CallKey(lastOp') \notin DOMAIN ledger[lastOp'.scope])
        => (lastOp'.result = "NotInstalled" /\ UNCHANGED progVars)]_vars

\* C8 witness: NotInstalled in one scope while another scope holds the key.
C8_Witness ==
    /\ IsCall(lastOp, {"uninstall", "enable", "disable"})
    /\ lastOp.result = "NotInstalled"
    /\ lastOp.scope \in ConfiguredScopes
    /\ InstalledIn(CallKey(lastOp)) # {}

\* C9: a successful install of a plugin with a typed external source makes
\* one fetch and leaves a plugin cache; with a relative-path source it makes
\* no fetch and leaves no plugin cache.
C9_FetchIffExternalSource ==
    (IsCall(lastOp, {"install"}) /\ lastOp.result = "ok")
    => IF External(lastOp.plugin, lastOp.marketplace)
       THEN /\ lastOp.fetches = 1
            /\ <<lastOp.marketplace, lastOp.plugin>> \in pluginCache
       ELSE SourceKind(lastOp.plugin, lastOp.marketplace) = "relative"
            => /\ lastOp.fetches = 0
               /\ <<lastOp.marketplace, lastOp.plugin>> \notin pluginCache

\* C10: an install of a plugin whose source kind is npm or pip, all earlier
\* preconditions met, fails with FetchError and writes no key and no cache.
C10_UnimplementedSourceFails ==
    [][(/\ IsCall(lastOp', {"install"})
        /\ SourceKind(lastOp'.plugin, lastOp'.marketplace) \in {"npm", "pip"}
        /\ lastOp'.result \notin {"PluginBlocked", "MarketplaceNotFound", "LoadError",
                                  "PluginNotFound", "ValueError", "AlreadyInstalled"})
        => /\ lastOp'.result = "FetchError"
           /\ ledger' = ledger
           /\ pluginCache' = pluginCache]_vars


----------------------------------------------------------------------------
(* Marketplace registry *)

\* C11: a successful add_marketplace with name omitted registers the
\* marketplace under the name its fetched manifest declares and touches no
\* other entry; for "o/r" the stored source is the github source with repo
\* "o/r" and the ref given; on an empty registry it leaves exactly one entry.
C11_AddRegistersUnderManifestName ==
    [][(/\ lastOp'.op = "add_marketplace"
        /\ lastOp'.result = "ok"
        /\ lastOp'.name = NoStr)
        => \E k \in Marketplaces :
              /\ registry'[k] # NoEntry
              /\ mktCache'[k] \notin {"none", "partial"}
              /\ TreeName(mktCache'[k]) = k
              /\ k # lastOp'.source
              /\ (lastOp'.source = <<"o", "/", "r">> =>
                     registry'[k].source =
                         [source |-> "github", loc |-> <<"o", "/", "r">>,
                          ref |-> lastOp'.ref])
              /\ \A j \in Marketplaces \ {k} : registry'[j] = registry[j]
              /\ (Registered = {} =>
                     {j \in Marketplaces : registry'[j] # NoEntry} = {k})]_vars

C11_Witness ==
    /\ lastOp.op = "add_marketplace"
    /\ lastOp.result = "ok"
    /\ lastOp.name = NoStr
    /\ lastOp.source = <<"o", "/", "r">>
    /\ Registered = {<<"m">>}
    /\ registry[<<"m">>].source.source = "github"
    /\ registry[<<"m">>].source.loc = <<"o", "/", "r">>

\* C13: refresh_marketplace of an unregistered name fails with
\* MarketplaceNotFound, fetches nothing and changes nothing; of a registered
\* name it fetches the stored source and, when it succeeds, caches the fetched
\* tree under the same name and rewrites the entry with the same source and
\* the time of the call, leaving the other entries, the other caches and the
\* ledgers alone.
C13_RefreshUsesStoredSource ==
    [][(lastOp'.op = "refresh_marketplace")
        => LET name == lastOp'.marketplace
           IN  IF registry[name] = NoEntry
               THEN /\ lastOp'.result = "MarketplaceNotFound"
                    /\ lastOp'.fetches = 0
                    /\ UNCHANGED progVars
               ELSE /\ lastOp'.result # "MarketplaceNotFound"
                    /\ lastOp'.fetches = 1
                    /\ lastOp'.fetched = registry[name].source
                    /\ ledger' = ledger
                    /\ \A j \in Marketplaces \ {name} :
                           registry'[j] = registry[j] /\ mktCache'[j] = mktCache[j]
                    /\ IF lastOp'.result = "ok"
                       THEN /\ registry'[name].source = registry[name].source
                            /\ registry'[name].lastUpdated = now
                            /\ registry'[name].installLocation = get_cache_path(name)
                            /\ load_marketplace(mktCache'[name]) # "LoadError"
                       ELSE /\ registry'[name] = registry[name]
                            /\ mktCache'[name] = mktCache[name]]_vars

C13_Witness ==
    /\ lastOp.op = "refresh_marketplace"
    /\ lastOp.result = "ok"
    /\ lastOp.marketplace = <<"n">>
    /\ lastOp.fetched.ref = "v"
    /\ registry[<<"n">>].source = lastOp.fetched
    /\ registry[<<"n">>].lastUpdated = 1
    /\ registry[<<"m">>] # NoEntry
    /\ registry[<<"m">>].lastUpdated = 0
    /\ DOMAIN ledger["user"] # {}

\* C14: get_marketplace_manifest fails with MarketplaceNotFound exactly when
\* the registry has no entry for the name, whatever the cache holds; with an
\* entry and no cache directory it fails with LoadError.
C14_ManifestNotFoundIffUnregistered ==
    (lastOp.op = "get_marketplace_manifest")
        => /\ lastOp.result \in {"ok", "LoadError", "MarketplaceNotFound"}
           /\ (lastOp.result = "MarketplaceNotFound"
                  <=> registry[lastOp.marketplace] = NoEntry)
           /\ (registry[lastOp.marketplace] # NoEntry
                /\ mktCache[lastOp.marketplace] = "none")
                  => lastOp.result = "LoadError"

C14_Witness ==
    /\ lastOp.op = "get_marketplace_manifest"
    /\ lastOp.marketplace = <<"m">>
    /\ lastOp.result = "LoadError"
    /\ registry[<<"m">>] # NoEntry
    /\ mktCache[<<"m">>] = "none"
    /\ registry[<<"n">>] = NoEntry
    /\ mktCache[<<"n">>] # "none"

\* C12: remove_marketplace of an unregistered name fails with
\* MarketplaceNotFound and changes nothing; of a registered name it first
\* deletes the cache, so that while the call is in progress the entry is
\* present and the cache is missing, and then drops the entry, leaving every
\* other entry as it was; at no step of the call is the name without entry
\* and with a cache.
C12_RemoveCacheThenEntry ==
    [][/\ (pending' # Idle /\ pending'.op = "remove_marketplace")
            => /\ registry'[pending'.name] # NoEntry
               /\ mktCache'[pending'.name] = "none"
       /\ (lastOp'.op = "remove_marketplace")
            => LET name == lastOp'.marketplace
               IN  /\ ~(registry'[name] = NoEntry /\ mktCache'[name] # "none")
                   /\ \A j \in Marketplaces \ {name} : registry'[j] = registry[j]
                   /\ (pending = Idle /\ registry[name] = NoEntry)
                        => /\ lastOp'.result = "MarketplaceNotFound"
                           /\ UNCHANGED progVars
                   /\ (pending = Idle /\ registry[name] # NoEntry)
                        => /\ lastOp'.result = "running"
                           /\ registry'[name] = registry[name]
                   /\ (lastOp'.result = "ok")
                        => /\ registry'[name] = NoEntry
                           /\ mktCache'[name] = "none"]_vars

C12_Witness ==
    /\ pending # Idle
    /\ pending.op = "remove_marketplace"
    /\ pending.name = <<"m">>
    /\ registry[<<"m">>] # NoEntry
    /\ mktCache[<<"m">>] = "none"
    /\ registry[<<"n">>] # NoEntry
    /\ mktCache[<<"n">>] = "T3"

----------------------------------------------------------------------------
(* Scopes and queries *)

UnconfiguredScopes == Scopes \ ConfiguredScopes

\* C15 as stated: install, uninstall, enable, disable and list_installed on a
\* scope without adapter fail with the configuration error and change
\* nothing.
C15_UnconfiguredScopeConfigError ==
    [][(/\ lastOp'.op \in PluginOps \cup {"list_installed"}
        /\ lastOp'.scope \in UnconfiguredScopes)
        => (lastOp'.result = "ValueError" /\ UNCHANGED progVars)]_vars

\* C15: on a scope without adapter no call changes any state; uninstall,
\* enable and disable fail with the configuration error; install fails, with
\* the configuration error exactly when the key is not blocked, the
\* marketplace is registered, its cached manifest loads and lists the
\* plugin, and with the error of that earlier precondition otherwise;
\* list_installed returns the empty list.
C15_UnconfiguredScopeNoChange ==
    [][(/\ lastOp'.op \in PluginOps \cup {"list_installed"}
        /\ lastOp'.scope \in UnconfiguredScopes)
        => /\ UNCHANGED progVars
           /\ (lastOp'.op \in {"uninstall", "enable", "disable"})
                => lastOp'.result = "ValueError"
           /\ (lastOp'.op = "install")
                => /\ lastOp'.result \in {"PluginBlocked", "MarketplaceNotFound",
                                          "LoadError", "PluginNotFound", "ValueError"}
                   /\ lastOp'.result = "ValueError"
                        <=> /\ CallKey(lastOp') \notin blocklist
                            /\ registry[lastOp'.marketplace] # NoEntry
                            /\ Listed(lastOp'.plugin, lastOp'.marketplace)
           /\ (lastOp'.op = "list_installed")
                => (lastOp'.result = "ok" /\ lastOp'.value = <<>>)]_vars

C15_Witness ==
    /\ lastOp.op = "list_installed"
    /\ lastOp.scope = "local"
    /\ lastOp.result = "ok"
    /\ lastOp.value = <<>>
    /\ \E sc \in ConfiguredScopes : DOMAIN ledger[sc] # {}

\* C16: is_installed holds iff some configured scope's ledger contains the
\* key, is_enabled iff some configured scope's ledger maps the key to true,
\* whatever the other scopes say; is_enabled implies is_installed; the two
\* calls return these values.
C16_InstalledEnabledAnyScope ==
    /\ \A p \in Plugins, m \in Marketplaces :
          /\ is_installed(p, m) <=> InstalledIn(_plugin_key(p, m)) # {}
          /\ is_enabled(p, m)
               <=> \E sc \in InstalledIn(_plugin_key(p, m)) :
                      ledger[sc][_plugin_key(p, m)] = TRUE
          /\ is_enabled(p, m) => is_installed(p, m)
    /\ (lastOp.op = "is_installed")
          => lastOp.value = <<InstalledIn(CallKey(lastOp)) # {}>>
    /\ (lastOp.op = "is_enabled")
          => lastOp.value = <<\E sc \in InstalledIn(CallKey(lastOp)) :
                                 ledger[sc][CallKey(lastOp)] = TRUE>>

C16_Witness ==
    /\ lastOp.op = "is_enabled"
    /\ lastOp.plugin = <<"a">>
    /\ lastOp.value = <<TRUE>>
    /\ InstalledIn(<<"a", "@", "m">>) = {"user", "project"}
    /\ ledger["user"][<<"a", "@", "m">>] = FALSE
    /\ ledger["project"][<<"a", "@", "m">>] = TRUE

\* C17: a check_update that returns reports has_update false when the plugin
\* is not listed in the cached manifest, is installed in no scope, or the
\* latest or the current version is unknown; with both known has_update
\* holds exactly when the two strings differ.  The latest version is the
\* manifest entry's.
C17_HasUpdateIffVersionsDiffer ==
    (lastOp.op = "check_update" /\ lastOp.result = "ok")
        => LET r == lastOp.value[1]
               p == lastOp.plugin
               m == lastOp.marketplace
           IN  /\ r.has_update
                    <=> /\ r.latest_version # "None"
                        /\ r.current_version # "None"
                        /\ r.latest_version # r.current_version
               /\ ~Listed(p, m) => (~r.has_update /\ r.latest_version = "None")
               /\ Listed(p, m) => r.latest_version = TreeVersions(mktCache[m])[p]
               /\ InstalledIn(_plugin_key(p, m)) = {}
                    => (~r.has_update /\ r.current_version = "None")

\* latest "1" is lower than current "2": an update is reported
C17_Witness ==
    /\ lastOp.op = "check_update"
    /\ lastOp.result = "ok"
    /\ lastOp.value[1].has_update
    /\ lastOp.value[1].latest_version = "1"
    /\ lastOp.value[1].current_version = "2"

\* the (name, marketplace) pairs enabled in at least one configured scope
EnabledPairs ==
    {pm \in Plugins \X Marketplaces :
        \E sc \in InstalledIn(_plugin_key(pm[1], pm[2])) :
            ledger[sc][_plugin_key(pm[1], pm[2])] = TRUE}

\* C18 as stated: check_all_updates returns, in every state, a list with
\* exactly one result for each pair enabled in some configured scope and
\* none for any other pair.
C18_OneResultPerEnabledPair ==
    (lastOp.op = "check_all_updates")
        => /\ lastOp.result = "ok"
           /\ Len(lastOp.value) = Cardinality(EnabledPairs)
           /\ \A pm \in EnabledPairs :
                  \E i \in 1..Len(lastOp.value) :
                      /\ lastOp.value[i].plugin_name = pm[1]
                      /\ lastOp.value[i].marketplace = pm[2]

----------------------------------------------------------------------------
(* Settings files *)

\* C19: a successful install, uninstall, enable or disable leaves the other
\* top-level keys of every settings file that is a JSON object as they were
\* and leaves the files of the other scopes alone, and get_enabled_plugins
\* on the written file returns the map that was written; a failed call
\* writes no file.
C19_SettingsWriteMergePreserving ==
    [][(lastOp'.op \in PluginOps)
        => /\ \A sc \in ConfiguredScopes :
                 /\ files[sc].kind = "dict"
                      => (files'[sc].kind = "dict" /\ files'[sc].other = files[sc].other)
                 /\ sc # lastOp'.scope => files'[sc] = files[sc]
                 /\ get_enabled_plugins(files'[sc]) = ledger'[sc]
           /\ lastOp'.result # "ok" => files' = files]_vars

C19_Witness ==
    /\ lastOp.op = "install"
    /\ lastOp.result = "ok"
    /\ lastOp.scope = "user"
    /\ lastOp.plugin = <<"b">>
    /\ files["user"].other = "theme"
    /\ files["user"].plugins.map =
           [k \in {<<"a", "@", "m">>, <<"b", "@", "m">>} |-> "true"]

----------------------------------------------------------------------------
(* Life cycle of a (plugin, marketplace, scope) triple *)

TripleState(plugins, key) ==
    IF key \notin DOMAIN plugins THEN "absent"
    ELSE IF plugins[key] THEN "installed-enabled"
    ELSE "installed-disabled"

\* the triples whose state a step changes, with the state before, the state
\* after and the call that made the step
Transitions ==
    {<<TripleState(ledger[sc], _plugin_key(p, m)),
       TripleState(ledger'[sc], _plugin_key(p, m)),
       IF lastOp'.plugin = p /\ lastOp'.marketplace = m /\ lastOp'.scope = sc
       THEN lastOp'.op ELSE "other">> :
            p \in Plugins, m \in Marketplaces, sc \in ConfiguredScopes}

Steady ==
    {<<st, st, op>> : st \in {"absent", "installed-enabled", "installed-disabled"},
                      op \in PluginOps \cup {"other"}}

\* C20 as stated: a triple changes state only by install from absent to
\* installed-enabled, by disable from installed-enabled to installed-disabled,
\* by enable from installed-disabled to installed-enabled and by uninstall
\* from installed-disabled to absent.
C20_OnlyDisabledCanBeUninstalled ==
    [][Transitions \subseteq Steady \cup
          {<<"absent", "installed-enabled", "install">>,
           <<"installed-enabled", "installed-disabled", "disable">>,
           <<"installed-disabled", "installed-enabled", "enable">>,
           <<"installed-disabled", "absent", "uninstall">>}]_vars

\* C20: a triple changes state only by a call on that triple: install from
\* absent to installed-enabled, disable from installed-enabled to
\* installed-disabled, enable from installed-disabled to installed-enabled,
\* uninstall from installed-disabled or from installed-enabled to absent.
C20_TripleTransitions ==
    [][Transitions \subseteq Steady \cup
          {<<"absent", "installed-enabled", "install">>,
           <<"installed-enabled", "installed-disabled", "disable">>,
           <<"installed-disabled", "installed-enabled", "enable">>,
           <<"installed-disabled", "absent", "uninstall">>,
           <<"installed-enabled", "absent", "uninstall">>}]_vars

\* an uninstall that followed the install with no enable or disable between
C20_Witness ==
    /\ track.phase = "closed"
    /\ ~track.toggled
    /\ IsCall(lastOp, {"uninstall"})
    /\ lastOp.result = "ok"

----------------------------------------------------------------------------
(* Scopes, blocklist and order of the install checks *)

\* C21: a step changes at most the key of the call in the scope of the call:
\* every other key of that scope and every key of every other scope is held
\* before and after with the same value.
C21_ScopesIndependent ==
    [][\A sc \in ConfiguredScopes :
          \A k \in DOMAIN ledger[sc] \cup DOMAIN ledger'[sc] :
              (k \in DOMAIN ledger[sc] /\ k \in DOMAIN ledger'[sc]
                   /\ ledger'[sc][k] = ledger[sc][k])
              \/ (/\ lastOp'.op \in PluginOps
                  /\ lastOp'.scope = sc
                  /\ CallKey(lastOp') = k)]_vars

\* one pair enabled in one scope and disabled in the other, next to another
\* key, after a call on the first scope
C21_Witness ==
    /\ IsCall(lastOp, PluginOps)
    /\ lastOp.result = "ok"
    /\ lastOp.scope = "user"
    /\ lastOp.plugin = <<"a">>
    /\ DOMAIN ledger["user"] = {<<"a", "@", "m">>, <<"b", "@", "m">>}
    /\ ledger["user"][<<"a", "@", "m">>] = TRUE
    /\ DOMAIN ledger["project"] = {<<"a", "@", "m">>}
    /\ ledger["project"][<<"a", "@", "m">>] = FALSE

\* C22: no call of the manager changes the blocklist, a change of the
\* blocklist changes no ledger, and uninstall, enable and disable of a key
\* its scope holds succeed with their usual effect whether or not the key
\* is blocked.
C22_BlocklistAtInstallOnly ==
    [][/\ lastOp'.op # "blocklist_refresh" => blocklist' = blocklist
       /\ lastOp'.op = "blocklist_refresh" => ledger' = ledger
       /\ (/\ IsCall(lastOp', {"uninstall", "enable", "disable"})
           /\ lastOp'.scope \in ConfiguredScopes
           /\ CallKey(lastOp') \in DOMAIN ledger[lastOp'.scope])
            => /\ lastOp'.result = "ok"
               /\ TripleState(ledger'[lastOp'.scope], CallKey(lastOp'))
                    = CASE lastOp'.op = "uninstall" -> "absent"
                        [] lastOp'.op = "enable" -> "installed-enabled"
                        [] lastOp'.op = "disable" -> "installed-disabled"]_vars

\* a key blocked after its install is disabled, and stays in the ledger
C22_Witness ==
    /\ IsCall(lastOp, {"disable"})
    /\ lastOp.result = "ok"
    /\ CallKey(lastOp) \in blocklist
    /\ CallKey(lastOp) \in DOMAIN ledger[lastOp.scope]
    /\ ledger[lastOp.scope][CallKey(lastOp)] = FALSE

\* the outcome of install by the order of checks of C23
FirstFailedCheck(p, m, sc) ==
    IF _plugin_key(p, m) \in blocklist THEN "PluginBlocked"
    ELSE IF registry[m] = NoEntry THEN "MarketplaceNotFound"
    ELSE IF ~Listed(p, m) THEN "PluginNotFound"
    ELSE IF sc \notin ConfiguredScopes THEN "ValueError"
    ELSE IF _plugin_key(p, m) \in DOMAIN ledger[sc] THEN "AlreadyInstalled"
    ELSE "ok"

\* C23: install reports the first check that fails, in the order blocklist,
\* marketplace registered, plugin listed, scope configured, key not yet in
\* the scope; a PluginBlocked carries the reason of the blocklist entry.
C23_InstallCheckOrderAndReason ==
    [][IsCall(lastOp', {"install"})
        => /\ lastOp'.result
                = FirstFailedCheck(lastOp'.plugin, lastOp'.marketplace, lastOp'.scope)
           /\ lastOp'.result = "PluginBlocked"
                => lastOp'.reason = BlockReason(CallKey(lastOp'))]_vars

\* C24: no scope's ledger holds the key of an externally-sourced plugin
\* whose plugin cache is missing.
C24_NoKeyWithoutPluginCache ==
    \A p \in Plugins, m \in Marketplaces :
        (External(p, m) /\ <<m, p>> \notin pluginCache)
        => InstalledIn(_plugin_key(p, m)) = {}

\* C29: the marketplace named by every key of every ledger is registered.
C29_LedgerKeysNameRegisteredMarketplaces ==
    \A sc \in ConfiguredScopes :
        \A key \in DOMAIN ledger[sc] : registry[rsplit(key)[2]] # NoEntry

----------------------------------------------------------------------------
(* Failed fetches and loads *)

\* C25: an add_marketplace or refresh_marketplace call that ends with a
\* FetchError (the fetch failed) or a LoadError (the fetched tree has no valid
\* manifest) leaves the registry map, every marketplace cache, every plugin
\* cache and every ledger as they were before the call.
C25_FailedAddOrRefreshWritesNothing ==
    [][(/\ lastOp'.op \in {"add_marketplace", "refresh_marketplace"}
        /\ lastOp'.result \in {"FetchError", "LoadError"})
           => UNCHANGED <<registry, mktCache, pluginCache, ledger>>]_vars

C25_Witness ==
    /\ lastOp.op = "refresh_marketplace"
    /\ lastOp.result = "LoadError"
    /\ lastOp.marketplace = <<"m">>
    /\ mktCache[<<"m">>] = "T1"
    /\ registry[<<"m">>] # NoEntry
    /\ _plugin_key(<<"a">>, <<"m">>) \in DOMAIN ledger["user"]

----------------------------------------------------------------------------
(* The marketplace calls run from start to end, with sources given as
   strings and as objects *)

\* source objects handed to add_marketplace: a GitMarketplaceSource and an
\* NPMSource, which the fetcher of the manager resolves like the strings
ObjSources ==
    {[source |-> "git", loc |-> GitUrl, ref |-> "None"],
     [source |-> "npm", loc |-> <<"o", "/", "r">>, ref |-> "None"]}

NextReg ==
    \/ \E src \in MktSources, name \in MktNames, ref \in MktRefs, t \in MktTrees :
           AddMarketplaceAs(src, name, ref, t) /\ Frozen
    \/ \E source \in ObjSources, t \in MktTrees :
           AddMarketplaceObject(source, t) /\ Frozen
    \/ \E m \in Marketplaces : RemoveMarketplace(m) /\ Frozen
    \/ \E m \in Marketplaces, t \in MktTrees : RefreshMarketplace(m, t) /\ Frozen
    \/ Tick /\ Frozen

SpecReg == Init /\ [][NextReg]_vars

\* C30: after any sequence of add_marketplace, refresh_marketplace and
\* remove_marketplace calls that ran to their end, with a result or with an
\* error (an add_marketplace raising ValueError for a source it cannot
\* convert included), a marketplace cache is stored under a name only if the
\* registry has an entry for that name.
C30_NoOrphanedMarketplaceCache ==
    \A m \in Marketplaces : mktCache[m] # "none" => registry[m] # NoEntry

----------------------------------------------------------------------------
(* _atomic_write one file operation at a time, with a reader *)

\* a file holding text
Text(t) == [kind |-> "text", text |-> t]

\* the registry map file and a settings file
AtomicTargets == {<<"known_marketplaces.json">>, <<"settings.json">>}

\* complete JSON documents a writer dumps
Docs == {<<"{", "a", "}">>, <<"{", "b", "}">>}

DefaultDoc == <<"{", "}">>

\* variant: the text is written to the path itself
with_suffix_same(path) ==
    path

\* path.with_suffix(path.suffix + ".tmp")
with_suffix_tmp(path) ==
    path \o <<".tmp">>

AtomicPaths == AtomicTargets \cup {with_suffix_tmp(path) : path \in AtomicTargets}

\* json.loads accepts the text
json_loads_ok(t) ==
    /\ Len(t) >= 2
    /\ t[1] = "{"
    /\ t[Len(t)] = "}"

\* what a reader gets: the default when the file is missing or its text is
\* not a JSON document, else the document
_load_json(file) ==
    IF file.kind = "missing" THEN DefaultDoc
    ELSE IF ~json_loads_ok(file.text) THEN DefaultDoc
    ELSE file.text

\* Path.replace: the rename of src onto dst
replace(fs, src, dst) ==
    IF src = dst THEN fs
    ELSE [fs EXCEPT ![dst] = fs[src], ![src] = MissingFile]

InitAtomic ==
    /\ registry = [m \in Marketplaces |-> NoEntry]
    /\ mktCache = [m \in Marketplaces |-> "none"]
    /\ pluginCache = {}
    /\ ledger = [s \in ConfiguredScopes |-> Empty]
    /\ blocklist = {}
    /\ now = 0
    /\ lastOp = NoCall
    /\ \E start \in [AtomicTargets -> {MissingFile} \cup {Text(d) : d \in Docs}] :
           /\ files = [path \in AtomicPaths |->
                          IF path \in AtomicTargets THEN start[path] ELSE MissingFile]
           /\ track = [path \in AtomicTargets |->
                          [old |-> start[path], new |-> start[path]]]
    /\ again = FALSE
    /\ pending = Idle
    /\ scratch = NoScratch

\* tmp.write_text opens the file: it exists and is empty
AtomicWriteOpen(path, data) ==
    LET tmp == with_suffix_tmp(path)
    IN  /\ pending = Idle
        /\ pending' = [op |-> "_atomic_write", name |-> path, data |-> data]
        /\ files' = [files EXCEPT ![tmp] = Text(<<>>)]
        /\ track' = [track EXCEPT ![path] = [old |-> files[path], new |-> Text(data)]]
        /\ lastOp' = Call("_atomic_write", NoStr, path, "-", NoStr, "open", 0)
        /\ UNCHANGED <<progVars, again, scratch>>

\* tmp.write_text writes the next character
AtomicWriteMore ==
    /\ pending # Idle
    /\ pending.op = "_atomic_write"
    /\ LET tmp == with_suffix_tmp(pending.name)
           sofar == files[tmp].text
       IN  /\ Len(sofar) < Len(pending.data)
           /\ files' = [files EXCEPT ![tmp] =
                            Text(SubSeq(pending.data, 1, Len(sofar) + 1))]
    /\ lastOp' = Call("_atomic_write", NoStr, pending.name, "-", NoStr, "write", 0)
    /\ UNCHANGED <<progVars, track, again, pending, scratch>>

\* tmp.replace(path), once write_text has returned
AtomicWriteReplace ==
    /\ pending # Idle
    /\ pending.op = "_atomic_write"
    /\ LET tmp == with_suffix_tmp(pending.name)
       IN  /\ files[tmp] = Text(pending.data)
           /\ files' = replace(files, tmp, pending.name)
    /\ pending' = Idle
    /\ lastOp' = Call("_atomic_write", NoStr, pending.name, "-", NoStr, "ok", 0)
    /\ UNCHANGED <<progVars, track, again, scratch>>

\* another process reads the file
ReadFile(path) ==
    /\ lastOp' = [Call("_load_json", NoStr, path, "-", NoStr, "ok", 0)
                      EXCEPT !.value = <<_load_json(files[path])>>]
    /\ UNCHANGED <<progVars, track, again, pending, files, scratch>>

NextAtomic ==
    \/ \E path \in AtomicTargets, data \in Docs : AtomicWriteOpen(path, data)
    \/ AtomicWriteMore
    \/ AtomicWriteReplace
    \/ Die /\ FrozenFiles
    \/ \E path \in AtomicTargets : ReadFile(path)

SpecAtomic == InitAtomic /\ [][NextAtomic]_vars

\* C26: at every point of a write of the registry map file or of a settings
\* file, and after the writer died at any step of it, the file at the target
\* path holds the complete content it had before the write or the complete
\* new content, and a reader gets one of these two documents.
C26_WritesAtomicForReaders ==
    /\ \A path \in AtomicTargets : files[path] \in {track[path].old, track[path].new}
    /\ lastOp.op = "_load_json"
          => lastOp.value[1] \in {_load_json(track[lastOp.marketplace].old),
                                  _load_json(track[lastOp.marketplace].new)}

C26_Witness ==
    /\ lastOp.op = "_load_json"
    /\ pending # Idle
    /\ pending.name = lastOp.marketplace
    /\ Len(files[with_suffix_tmp(pending.name)].text) = 2
    /\ track[pending.name].old = Text(<<"{", "a", "}">>)
    /\ pending.data = <<"{", "b", "}">>
    /\ lastOp.value = <<(<<"{", "a", "}">>)>>

----------------------------------------------------------------------------
(* The fetch scope of add_marketplace and refresh_marketplace, one step at
   a time *)

\* a directory holding a tree
Dir(t) == [kind |-> "dir", tree |-> t]

\* local directories named by directory sources; they lie outside the
\* cache directory of the state adapter
DirPaths == {<<"/", "d">>, <<"/", "x">>}

\* names tempfile.TemporaryDirectory can give a new directory
TempNames == {<<"tmp1">>, <<"tmp2">>}

\* source objects of every kind the default fetcher tells apart
FetchSources ==
    {[source |-> "github", loc |-> <<"o", "/", "r">>, ref |-> "None"],
     [source |-> "git", loc |-> GitUrl, ref |-> "None"],
     [source |-> "http", loc |-> <<"o", "/", "s">>, ref |-> "None"],
     [source |-> "directory", loc |-> <<"/", "d">>, ref |-> "None"],
     [source |-> "directory", loc |-> <<"/", "x">>, ref |-> "None"],
     [source |-> "hostPattern", loc |-> <<"h">>, ref |-> "None"]}

InitFetch ==
    /\ registry = [m \in Marketplaces |-> NoEntry]
    /\ mktCache = [m \in Marketplaces |-> "none"]
    /\ pluginCache = {}
    /\ ledger = [s \in ConfiguredScopes |-> Empty]
    /\ blocklist = {}
    /\ now = 0
    /\ lastOp = NoCall
    /\ track = <<>>
    /\ again = FALSE
    /\ pending = Idle
    /\ \E t \in {"T1", "T0"} :
           files = [d \in DirPaths |-> IF d = <<"/", "d">> THEN Dir(t) ELSE MissingFile]
    /\ scratch = NoScratch

\* the directory the scope yielded still exists
PathAlive(c) ==
    IF c.kind = "temp" THEN c.path \in scratch
    ELSE c.kind = "dir" /\ files[c.path].kind = "dir"

\* variant: the temporary directory is removed only when the body returned
scope_exit_on_return(c, raised) ==
    IF c.kind = "temp" /\ ~raised THEN scratch \ {c.path} ELSE scratch

\* the temporary directories left when the scope of call c ends:
\* TemporaryDirectory removes its directory on return and on raise,
\* _context_yield_only removes nothing
scope_exit(c, raised) ==
    IF c.kind = "temp" THEN scratch \ {c.path} ELSE scratch

FetchStep(c, res) ==
    [Call(c.op, NoStr, c.name, "-", c.source.loc, res, 1) EXCEPT !.fetched = c.source]

\* the call ends by raising res inside the scope
Raise(c, res) ==
    /\ scratch' = scope_exit(c, TRUE)
    /\ pending' = Idle
    /\ lastOp' = FetchStep(c, res)

\* the call reaches self._fetcher.fetch(source) and enters the scope
FetchBegin(op, name, source) ==
    LET c == [op |-> op, name |-> name, source |-> source, kind |-> "none",
              path |-> NoStr, tree |-> "none", step |-> "begin"]
    IN  /\ pending = Idle
        /\ IF op = "add_marketplace" THEN name = NoStr
           ELSE name \in Registered /\ source = registry[name].source
        /\ CASE source.source \in {"github", "git"} ->
                    \E t \in TempNames \ scratch :
                        /\ scratch' = scratch \cup {t}
                        /\ track' = <<t>>
                        /\ pending' = [c EXCEPT !.kind = "temp", !.path = t, !.step = "cloning"]
                        /\ lastOp' = FetchStep(c, "cloning")
             [] source.source = "http" ->
                    /\ pending' = [c EXCEPT !.step = "downloading"]
                    /\ lastOp' = FetchStep(c, "downloading")
                    /\ track' = <<>>
                    /\ UNCHANGED scratch
             [] source.source = "directory" /\ files[source.loc].kind = "dir" ->
                    /\ pending' = [c EXCEPT !.kind = "dir", !.path = source.loc,
                                            !.tree = files[source.loc].tree, !.step = "open"]
                    /\ lastOp' = FetchStep(c, "open")
                    /\ track' = <<>>
                    /\ UNCHANGED scratch
             [] OTHER ->
                    /\ lastOp' = FetchStep(c, "FetchError")
                    /\ track' = <<>>
                    /\ UNCHANGED <<pending, scratch>>
        /\ UNCHANGED <<progVars, again, files>>

\* _clone returns or raises FetchError inside the TemporaryDirectory block
CloneEnd(out) ==
    /\ pending # Idle
    /\ pending.step = "cloning"
    /\ out \in FetchOutcomes(pending.source)
    /\ IF out = "FetchError"
       THEN Raise(pending, "FetchError")
       ELSE /\ pending' = [pending EXCEPT !.tree = out, !.step = "open"]
            /\ lastOp' = FetchStep(pending, "open")
            /\ UNCHANGED scratch
    /\ UNCHANGED <<progVars, track, again, files>>

\* fetch_via_http returns or raises; on return the manifest is written to a
\* new temporary directory, which is yielded
DownloadEnd(out) ==
    /\ pending # Idle
    /\ pending.step = "downloading"
    /\ out \in FetchOutcomes(pending.source)
    /\ IF out = "FetchError"
       THEN Raise(pending, "FetchError") /\ UNCHANGED track
       ELSE \E t \in TempNames \ scratch :
                /\ scratch' = scratch \cup {t}
                /\ track' = <<t>>
                /\ pending' = [pending EXCEPT !.kind = "temp", !.path = t,
                                              !.tree = out, !.step = "open"]
                /\ lastOp' = FetchStep(pending, "open")
    /\ UNCHANGED <<progVars, again, files>>

\* manifest = load_marketplace(path); resolved_name = name or manifest.name
BodyLoad ==
    /\ pending # Idle
    /\ pending.step = "open"
    /\ IF load_marketplace(pending.tree) = "LoadError"
       THEN Raise(pending, "LoadError")
       ELSE /\ pending' = [pending EXCEPT
                               !.name = IF pending.op = "add_marketplace"
                                        THEN resolved_name(NoStr, pending.tree)
                                        ELSE pending.name,
                               !.step = "loaded"]
            /\ lastOp' = FetchStep(pending, "loaded")
            /\ UNCHANGED scratch
    /\ UNCHANGED <<progVars, track, again, files>>

\* store_cache(name, path): the copy completes, or copytree raises with the
\* old copy removed and the new one incomplete
BodyStore(copied) ==
    /\ pending # Idle
    /\ pending.step = "loaded"
    /\ IF copied
       THEN /\ mktCache' = [mktCache EXCEPT ![pending.name] = pending.tree]
            /\ pending' = [pending EXCEPT !.step = "stored"]
            /\ lastOp' = FetchStep(pending, "stored")
            /\ UNCHANGED scratch
       ELSE /\ mktCache' = [mktCache EXCEPT ![pending.name] = "partial"]
            /\ Raise(pending, "OSError")
    /\ UNCHANGED <<registry, pluginCache, ledger, blocklist, now, track, again, files>>

\* the with block ends after its last statement
ScopeExit ==
    /\ pending # Idle
    /\ pending.step = "stored"
    /\ scratch' = scope_exit(pending, FALSE)
    /\ pending' = [pending EXCEPT !.step = "closed"]
    /\ lastOp' = FetchStep(pending, "closed")
    /\ UNCHANGED <<progVars, track, again, files>>

\* the statements after the with block: the entry is built and
\* set_marketplaces writes the map
FetchFinish ==
    /\ pending # Idle
    /\ pending.step = "closed"
    /\ registry' = [registry EXCEPT ![pending.name] =
           IF pending.op = "add_marketplace"
           THEN KnownMarketplaceEntry(_source_to_state_source(pending.source),
                                      pending.name, now)
           ELSE refreshed_entry(registry[pending.name], pending.name, now)]
    /\ pending' = Idle
    /\ lastOp' = FetchStep(pending, "ok")
    /\ UNCHANGED <<mktCache, pluginCache, ledger, blocklist, now, track, again,
                   files, scratch>>

NextFetch ==
    \/ \E source \in FetchSources : FetchBegin("add_marketplace", NoStr, source)
    \/ \E m \in Marketplaces : FetchBegin("refresh_marketplace", m, registry[m].source)
    \/ \E out \in AllTrees : CloneEnd(out)
    \/ \E out \in AllTrees : DownloadEnd(out)
    \/ BodyLoad
    \/ \E copied \in BOOLEAN : BodyStore(copied)
    \/ ScopeExit
    \/ FetchFinish
    \/ \E m \in Marketplaces : pending = Idle /\ RemoveMarketplace(m) /\ Frozen
    \/ pending = Idle /\ Tick /\ Frozen

SpecFetch == InitFetch /\ [][NextFetch]_vars

----------------------------------------------------------------------------
(* install by two processes on the same stores, one store access at a time *)

Procs == {"p1", "p2"}

\* doubled: a write put a key the store already held; lost: a write removed
\* a key the store held; serial: one of the two happened in a call during
\* which no other process took a step
NoRace == [doubled |-> FALSE, lost |-> FALSE, serial |-> FALSE]

InitRace ==
    /\ registry = [m \in Marketplaces |-> NoEntry]
    /\ mktCache = [m \in Marketplaces |-> "none"]
    /\ pluginCache = {}
    /\ ledger = [s \in ConfiguredScopes |-> Empty]
    /\ blocklist = {}
    /\ now = 0
    /\ lastOp = NoCall
    /\ track = NoRace
    /\ again = FALSE
    /\ pending = [proc \in Procs |-> Idle]
    /\ files = [s \in ConfiguredScopes |-> MissingFile]
    /\ scratch = NoScratch

\* the calls in progress of the other processes have been overlapped
Overlap(proc) ==
    [q \in Procs |-> IF q # proc /\ pending[q] # Idle
                     THEN [pending[q] EXCEPT !.overlapped = TRUE]
                     ELSE pending[q]]

\* install up to and including plugins = adapter.get_enabled_plugins() and
\* the check of the key against that map
InstallRead(proc, p, m, s) ==
    LET res == InstallResult(p, m, s)
    IN  /\ pending[proc] = Idle
        /\ lastOp' = Call("install", p, m, s, NoStr,
                          IF res = "ok" THEN "read" ELSE res, 0)
        /\ pending' = [Overlap(proc) EXCEPT ![proc] =
               IF res = "ok"
               THEN [op |-> "install", plugin |-> p, marketplace |-> m, scope |-> s,
                     plugins |-> ledger[s],
                     overlapped |-> \E q \in Procs \ {proc} : pending[q] # Idle]
               ELSE Idle]
        /\ UNCHANGED <<progVars, track, again, files, scratch>>

\* plugins[key] = True; adapter.set_enabled_plugins(plugins)
InstallWrite(proc) ==
    LET c == pending[proc]
        key == _plugin_key(c.plugin, c.marketplace)
        written == dict_set(c.plugins, key, TRUE)
        doubled == key \in DOMAIN ledger[c.scope]
        lost == DOMAIN ledger[c.scope] \ DOMAIN written # {}
    IN  /\ c # Idle
        /\ ledger' = [ledger EXCEPT ![c.scope] = written]
        /\ lastOp' = Call("install", c.plugin, c.marketplace, c.scope, NoStr, "ok", 0)
        /\ pending' = [Overlap(proc) EXCEPT ![proc] = Idle]
        /\ track' = [doubled |-> track.doubled \/ doubled,
                     lost |-> track.lost \/ lost,
                     serial |-> track.serial \/ ((doubled \/ lost) /\ ~c.overlapped)]
        /\ UNCHANGED <<registry, mktCache, pluginCache, blocklist, now, again, files,
                       scratch>>

NextRace ==
    \/ \E proc \in Procs, p \in Plugins, m \in Marketplaces, s \in Scopes :
           InstallRead(proc, p, m, s)
    \/ \E proc \in Procs : InstallWrite(proc)
    \/ /\ \A proc \in Procs : pending[proc] = Idle
       /\ AddMarketplace(<<"o", "/", "r">>, "T1")
       /\ Frozen

SpecRace == InitRace /\ [][NextRace]_vars

\* C28: install calls of two processes on the same scope store can
\* interleave between get_enabled_plugins and set_enabled_plugins, and then
\* a second install of a key succeeds without AlreadyInstalled or a write
\* removes a key installed meanwhile; neither ever happens in a call during
\* which no other process took a step.
C28_RaceOnlyWhenInterleaved ==
    ~track.serial

C28_Witness ==
    /\ track.doubled
    /\ track.lost
    /\ lastOp.op = "install"
    /\ lastOp.result = "ok"

====
